---- MODULE Spec2Model ----
(***************************************************************************)
(* MapnikSource (mapproxy/source/mapnik.py): the module-level handle cache *)
(* (_map_objs, _map_loading, _map_objs_lock), MapnikSource.__init__,       *)
(* get_map, render, map_obj and _render_mapfile, executed by concurrent    *)
(* caller threads of one process.                                          *)
(*                                                                         *)
(* Each statement of map_obj that reads or writes a module global is one   *)
(* step: the membership test (line 109), the insertion of the Event (110), *)
(* the evaluation of the name _map_objs_lock and the acquisition of the    *)
(* Lock object it yielded (111), the construction (114-117), the store     *)
(* (119) and the set (120).  Every release of a lock is a step too: an     *)
(* exception raised inside the with block of line 111 first releases the   *)
(* Lock and then, leaving render(), the external lock.  The three          *)
(* assignments of __init__ (62, 64, 66) are three steps as well.           *)
(*                                                                         *)
(* Two name lookups of map_obj fail in the module as written:              *)
(*   line 102  threading.current_thread().get_ident   no Thread object has *)
(*             this attribute: AttributeError                              *)
(*   line 112  proc                  bound nowhere in the module: NameError*)
(* get_ident_attr and proc_defined record what the two lookups yield, and  *)
(* Init gives them these values.  Every map_obj call therefore ends at     *)
(* line 102: the statements after it (lines 103-129 and 138-170) are       *)
(* translated below, but no behaviour of the program takes them and they   *)
(* are no part of Next.  Lines 145-151, the layer filter, are run on their *)
(* own on every layer list by SpecFilter.                                  *)
(*                                                                         *)
(* run_non_blocking (line 132) runs _render_mapfile in a worker while the  *)
(* caller is suspended until it returns or raises: the worker's steps are  *)
(* the steps of the calling thread t.                                      *)
(***************************************************************************)
EXTENDS Integers, Sequences, FiniteSets, TLC

\* ------------------------------------------------------------------ bounds
NThreads == 3      \* concurrent caller threads
MaxCalls == 4      \* get_map calls, over all threads
MaxInst  == 2      \* MapnikSource instances constructed (the first one in Init)
MaxLevel == 1      \* web-mercator levels a templated mapfile resolves to
MaxLen   == 4      \* layers of a map handed to the layer filter on its own

Threads == 1..NThreads
Levels  == 1..MaxLevel

\* ------------------------------------------------------------- value sets
None == "None"

BaseMapfile  == "base.xml"
TemplateFile == "z%(webmercator_level).xml"

\* the layers a loaded map carries (mapnik.load_map), by name
LoadedLayers == <<"roads", "Unkown", "labels">>

\* multiprocessing.current_process()._identity of the process whose threads
\* are modelled (the main process: the empty tuple)
process_id == <<>>

\* constructor arguments of a MapnikSource (line 52-53): lock is None or the
\* external lock factory, res_range/coverage are None or configured, layers
\* is None or an allow-list
Configs ==
  { [ mapfile |-> BaseMapfile,  layers |-> {},        lock |-> FALSE,
      res_range |-> FALSE, coverage |-> FALSE ],
    [ mapfile |-> BaseMapfile,  layers |-> {"roads"}, lock |-> TRUE,
      res_range |-> FALSE, coverage |-> TRUE ],
    [ mapfile |-> TemplateFile, layers |-> {},        lock |-> FALSE,
      res_range |-> TRUE,  coverage |-> FALSE ] }

\* the queries callers send, by what the call reads of them after the
\* guards: whether the engine accepts the query's srs, and the level
\* tile_grid derives from its bbox and size
Queries == [ srs_ok : BOOLEAN, level : Levels ]

\* ------------------------------------------------------------------ state
VARIABLES
  get_ident_attr,  \* line 102: the attribute's value per thread, 0 when missing
  proc_defined,    \* line 112: whether the global name proc is bound
  insts,           \* the MapnikSource instances, in construction order
  _map_objs,       \* module global: cachekey -> handle
  _map_loading,    \* module global: cachekey -> Event
  _map_objs_lock,  \* module global: the current threading.Lock object
  events,          \* the Event objects created so far: their flag
  maps,            \* the mapnik.Map objects loaded so far: their layer list
  ext_lock,        \* holder of the external serialization lock, or 0
  th,              \* per thread: position and locals of its get_map call
  loads,           \* per cachekey: completed constructions (Map + load_map)
  returned,        \* <<ident, mapfile, handle>> triples map_obj has returned
  init_failed,     \* the cachekeys for which load_map has raised
  ncalls,          \* get_map calls made so far
  flt,             \* the layer filter applied on its own: input and result
  init_pc          \* MapnikSource.__init__ under way: globals rebound so far

vars == << get_ident_attr, proc_defined, insts, _map_objs, _map_loading,
           _map_objs_lock, events, maps, ext_lock, th, loads, returned,
           init_failed, ncalls, flt, init_pc >>

\* ----------------------------------------------------------------- helpers
EmptyMap == [k \in {} |-> 0]

Put(f, k, v) == [x \in (DOMAIN f) \cup {k} |-> IF x = k THEN v ELSE f[x]]

Count(f, k) == IF k \in DOMAIN f THEN f[k] ELSE 0

NoQuery == [ srs_ok |-> TRUE, level |-> 0 ]

\* line 89-93: the mapfile render() hands to render_mapfile; the level is
\* substituted into a templated name only
ResolveMapfile(mapfile, query) ==
  IF mapfile = TemplateFile THEN << mapfile, query.level >> ELSE << mapfile, 0 >>

\* line 102-104: the cache key of thread t for a mapfile
CacheKey(t, mapfile) == << process_id, get_ident_attr[t], mapfile >>

\* the deletion loop advancing i after a deletion too
RECURSIVE FilterLoop_AlwaysAdvance(_, _, _, _, _)
FilterLoop_AlwaysAdvance(copy, n, i, layers, allow) ==
  IF n > Len(copy) THEN layers
  ELSE IF copy[n] /= "Unkown" /\ copy[n] \notin allow
       THEN FilterLoop_AlwaysAdvance(copy, n + 1, i + 1,
                       SubSeq(layers, 1, i) \o SubSeq(layers, i + 2, Len(layers)),
                       allow)
       ELSE FilterLoop_AlwaysAdvance(copy, n + 1, i + 1, layers, allow)

\* line 146-151: the in-place deletion loop; copy is m.layers[:], n the
\* position of the for loop in it, i the source's index (from 0), layers the
\* list m.layers as mutated so far
RECURSIVE FilterLoop(_, _, _, _, _)
FilterLoop(copy, n, i, layers, allow) ==
  IF n > Len(copy) THEN layers
  ELSE IF copy[n] /= "Unkown" /\ copy[n] \notin allow
       THEN FilterLoop(copy, n + 1, i,
                       SubSeq(layers, 1, i) \o SubSeq(layers, i + 2, Len(layers)),
                       allow)
       ELSE FilterLoop(copy, n + 1, i + 1, layers, allow)

\* line 145: the loop runs only for a non-empty allow-list
FilterLayers(layers, allow) ==
  IF allow = {} THEN layers ELSE FilterLoop(layers, 1, 0, layers, allow)

\* a threading.Lock is free when no thread holds it
LockFree(l) == \A t \in Threads : th[t].holds /= l

IdleLocals ==
  [ pc |-> "idle", inst |-> 0, query |-> NoQuery, contains |-> TRUE,
    intersects |-> TRUE, mapfile |-> <<>>, cachekey |-> <<>>, m |-> 0, ev |-> 0, lk |-> 0, holds |-> 0,
    repeat |-> FALSE, result |-> None, nctor |-> 0, ndraw |-> 0, nlog |-> 0,
    status |-> None, size |-> None, raising |-> None ]

\* line 82-84: what get_map lets out for an exception raised under render()
GetMapRaises(exc) == IF exc = "RuntimeError" THEN "SourceError" ELSE exc

\* the locals of a call that has ended with the given result: the frame is
\* gone, the outcome and the call's counters stay observable
Ended(l, result) ==
  [ l EXCEPT !.pc = "idle", !.mapfile = <<>>, !.cachekey = <<>>, !.m = 0,
             !.ev = 0, !.lk = 0, !.holds = 0, !.raising = None,
             !.result = result ]

\* the external lock letting every caller in
ExtLockFree_Always == TRUE

\* line 96: self.lock() is entered only while no other call is inside it
ExtLockFree == ext_lock = 0

\* line 96-97: leaving the with block releases the external lock
ReleaseExternal(t) == IF ext_lock = t THEN 0 ELSE ext_lock

\* an exception raised in the worker of thread t: leaves every with block on
\* the way out (line 111, line 96) and reaches get_map's except clause
Raise(t, l, exc) ==
  /\ th' = [th EXCEPT ![t] = Ended(l, GetMapRaises(exc))]
  /\ ext_lock' = ReleaseExternal(t)

Self(t) == insts[th[t].inst]

\* ------------------------------------------------------------------- Init
\* the names layers of a map can carry, and the lists of at most MaxLen
\* layers (m.layers before line 145)
LayerNames == {"roads", "Unkown", "labels"}

LayerLists == UNION { [1..n -> LayerNames] : n \in 0..MaxLen }

\* self.layers: None (empty) or an allow-list of layer names
AllowLists == SUBSET {"roads", "labels"}

\* no stand-alone run of the layer filter
NoFilterRun == [ layers |-> << >>, allow |-> {}, result |-> << >>, done |-> FALSE ]

Init ==
  /\ get_ident_attr = [t \in Threads |-> 0]
  /\ proc_defined = FALSE
  /\ \E c \in Configs : insts = << c >>
  /\ _map_objs = EmptyMap
  /\ _map_loading = EmptyMap
  /\ _map_objs_lock = 1
  /\ events = << >>
  /\ maps = << >>
  /\ ext_lock = 0
  /\ th = [t \in Threads |-> IdleLocals]
  /\ loads = EmptyMap
  /\ returned = {}
  /\ init_failed = {}
  /\ ncalls = 0
  /\ flt = NoFilterRun
  /\ init_pc = 0

\* ---------------------------------------------------------------- actions
\* line 52-62: a further MapnikSource is being constructed, in a thread of
\* its own; the first of the three module globals is rebound
InitRebindObjs ==
  /\ init_pc = 0
  /\ Len(insts) < MaxInst
  /\ _map_objs' = EmptyMap
  /\ init_pc' = 1
  /\ UNCHANGED << flt, get_ident_attr, proc_defined, insts, _map_loading,
                  _map_objs_lock, events, maps, ext_lock, th, loads, returned,
                  init_failed, ncalls >>

\* line 64: the Event table is rebound
InitRebindLoading ==
  /\ init_pc = 1
  /\ _map_loading' = EmptyMap
  /\ init_pc' = 2
  /\ UNCHANGED << flt, get_ident_attr, proc_defined, insts, _map_objs,
                  _map_objs_lock, events, maps, ext_lock, th, loads, returned,
                  init_failed, ncalls >>

\* line 66-71: the lock is rebound to a new Lock object and the constructor
\* returns the instance, which callers can use from now on
InitRebindLock ==
  /\ init_pc = 2
  /\ _map_objs_lock' = _map_objs_lock + 1
  /\ \E c \in Configs : insts' = Append(insts, c)
  /\ init_pc' = 0
  /\ UNCHANGED << flt, get_ident_attr, proc_defined, _map_objs, _map_loading,
                  events, maps, ext_lock, th, loads, returned, init_failed,
                  ncalls >>

\* line 52-71: constructing another MapnikSource rebinds the three globals,
\* one assignment at a time
MapnikSourceInit == InitRebindObjs \/ InitRebindLoading \/ InitRebindLock

\* line 74, 76: what the guards of source c can answer for a query; a guard
\* that is not configured, or not reached, is not asked (TRUE)
ContainsAnswers(c) == IF c.res_range THEN BOOLEAN ELSE {TRUE}

IntersectsAnswers(c, contains) ==
  IF c.coverage /\ contains THEN BOOLEAN ELSE {TRUE}

\* line 74-77: the query is refused by one of the two guards
GuardFails(c, contains, intersects) ==
  \/ c.res_range /\ ~contains
  \/ c.coverage /\ ~intersects

\* get_map with the guards never refusing
GetMap_NoGuard(t) ==
  /\ th[t].pc = "idle"
  /\ ncalls < MaxCalls
  /\ ncalls' = ncalls + 1
  /\ \E i \in 1..Len(insts), q \in Queries :
     \E contains \in ContainsAnswers(insts[i]) :
     \E intersects \in IntersectsAnswers(insts[i], contains) :
       LET l == [IdleLocals EXCEPT !.inst = i, !.query = q,
                                   !.contains = contains,
                                   !.intersects = intersects,
                                   !.repeat = /\ th[t].result = "ImageSource"
                                              /\ th[t].inst = i
                                              /\ th[t].query = q]
       IN th' = [th EXCEPT ![t] = [l EXCEPT !.pc = "render"]]
  /\ UNCHANGED << flt, init_pc, get_ident_attr, proc_defined, insts, _map_objs,
                  _map_loading, _map_objs_lock, events, maps, ext_lock,
                  loads, returned, init_failed >>

\* line 73-78: a caller enters get_map; the guards short-circuit
GetMap(t) ==
  /\ th[t].pc = "idle"
  /\ ncalls < MaxCalls
  /\ ncalls' = ncalls + 1
  /\ \E i \in 1..Len(insts), q \in Queries :
     \E contains \in ContainsAnswers(insts[i]) :
     \E intersects \in IntersectsAnswers(insts[i], contains) :
       \* contains, intersects: what res_range.contains and
       \* coverage.intersects answer for the query
       LET l == [IdleLocals EXCEPT !.inst = i, !.query = q,
                                   !.contains = contains,
                                   !.intersects = intersects,
                                   !.repeat = /\ th[t].result = "ImageSource"
                                              /\ th[t].inst = i
                                              /\ th[t].query = q]
       IN IF GuardFails(insts[i], contains, intersects)
          THEN th' = [th EXCEPT ![t] = Ended(l, "BlankImage")]
          ELSE th' = [th EXCEPT ![t] = [l EXCEPT !.pc = "render"]]
  /\ UNCHANGED << flt, init_pc, get_ident_attr, proc_defined, insts, _map_objs,
                  _map_loading, _map_objs_lock, events, maps, ext_lock,
                  loads, returned, init_failed >>

\* line 88-99, 131-137: render resolves the mapfile, takes the external lock
\* when one is configured and hands _render_mapfile to the worker, which
\* calls map_obj
Render(t) ==
  /\ th[t].pc = "render"
  /\ Self(t).lock => ExtLockFree
  /\ th' = [th EXCEPT ![t].pc = "L102",
                      ![t].mapfile = ResolveMapfile(Self(t).mapfile, th[t].query)]
  /\ ext_lock' = IF Self(t).lock THEN t ELSE ext_lock
  /\ UNCHANGED << flt, init_pc, get_ident_attr, proc_defined, insts, _map_objs,
                  _map_loading, _map_objs_lock, events, maps, loads,
                  returned, init_failed, ncalls >>

\* line 102-104: map_obj reads the attribute get_ident of the current
\* thread, which raises when the attribute is missing, and builds the cache
\* key
ThreadIdent(t) ==
  /\ th[t].pc = "L102"
  /\ IF get_ident_attr[t] = 0
     THEN Raise(t, th[t], "AttributeError")
     ELSE /\ th' = [th EXCEPT ![t].pc = "L109",
                              ![t].cachekey = CacheKey(t, th[t].mapfile)]
          /\ UNCHANGED ext_lock
  /\ UNCHANGED << flt, init_pc, get_ident_attr, proc_defined, insts, _map_objs,
                  _map_loading, _map_objs_lock, events, maps, loads,
                  returned, init_failed, ncalls >>

\* ------------------------------------------- statements no call reaches
\* line 109: the membership test, outside any lock
CheckLoading(t) ==
  /\ th[t].pc = "L109"
  /\ th' = [th EXCEPT ![t].pc =
              IF th[t].cachekey \notin DOMAIN _map_loading THEN "L110" ELSE "L125"]
  /\ UNCHANGED << flt, init_pc, get_ident_attr, proc_defined, insts, _map_objs,
                  _map_loading, _map_objs_lock, events, maps, ext_lock,
                  loads, returned, init_failed, ncalls >>

\* line 110: a new, unset Event is stored under the key
InsertEvent(t) ==
  /\ th[t].pc = "L110"
  /\ events' = Append(events, FALSE)
  /\ _map_loading' = Put(_map_loading, th[t].cachekey, Len(events) + 1)
  /\ th' = [th EXCEPT ![t].pc = "L111"]
  /\ UNCHANGED << flt, init_pc, get_ident_attr, proc_defined, insts, _map_objs,
                  _map_objs_lock, maps, ext_lock, loads, returned,
                  init_failed, ncalls >>

\* line 111: the with statement evaluates the global name _map_objs_lock;
\* the thread then waits for that Lock object, whatever the name is bound to
\* later
ReadLockName(t) ==
  /\ th[t].pc = "L111"
  /\ th' = [th EXCEPT ![t].pc = "L111w", ![t].lk = _map_objs_lock]
  /\ UNCHANGED << flt, init_pc, get_ident_attr, proc_defined, insts, _map_objs,
                  _map_loading, _map_objs_lock, events, maps, ext_lock,
                  loads, returned, init_failed, ncalls >>

\* line 111: the Lock object read is acquired once no thread holds it
AcquireLock(t) ==
  /\ th[t].pc = "L111w"
  /\ LockFree(th[t].lk)
  /\ th' = [th EXCEPT ![t].pc = "L112", ![t].holds = th[t].lk, ![t].lk = 0]
  /\ UNCHANGED << flt, init_pc, get_ident_attr, proc_defined, insts, _map_objs,
                  _map_loading, _map_objs_lock, events, maps, ext_lock,
                  loads, returned, init_failed, ncalls >>

\* line 112: the print inside the with block evaluates the global name
\* proc, which raises NameError when the name is unbound
PrintCaching(t) ==
  /\ th[t].pc = "L112"
  /\ th' = IF proc_defined
           THEN [th EXCEPT ![t].pc = "L114"]
           ELSE [th EXCEPT ![t].pc = "exit111", ![t].raising = "NameError"]
  /\ UNCHANGED << flt, init_pc, get_ident_attr, proc_defined, insts, _map_objs,
                  _map_loading, _map_objs_lock, events, maps, ext_lock,
                  loads, returned, init_failed, ncalls >>

\* line 111: an exception raised inside the with block leaves it, which
\* releases the Lock object the thread holds; the exception goes on into
\* render()
ExitGuard(t) ==
  /\ th[t].pc = "exit111"
  /\ th' = [th EXCEPT ![t].pc = "exit96", ![t].holds = 0]
  /\ UNCHANGED << flt, init_pc, get_ident_attr, proc_defined, insts, _map_objs,
                  _map_loading, _map_objs_lock, events, maps, ext_lock,
                  loads, returned, init_failed, ncalls >>

\* line 95-97, 82-84: the exception leaves render(), releasing the external
\* lock when it was taken, and reaches get_map's except clause
ExitRender(t) ==
  /\ th[t].pc = "exit96"
  /\ Raise(t, th[t], th[t].raising)
  /\ UNCHANGED << flt, init_pc, get_ident_attr, proc_defined, insts, _map_objs,
                  _map_loading, _map_objs_lock, events, maps, loads,
                  returned, init_failed, ncalls >>

\* line 114-117: mapnik.Map(0, 0) and load_map, inside the with block;
\* load_map may raise
Construct(t) ==
  /\ th[t].pc = "L114"
  /\ \/ /\ maps' = Append(maps, LoadedLayers)
        /\ loads' = Put(loads, th[t].cachekey, Count(loads, th[t].cachekey) + 1)
        /\ th' = [th EXCEPT ![t].pc = "L119", ![t].m = Len(maps) + 1,
                            ![t].nctor = th[t].nctor + 1]
        /\ UNCHANGED init_failed
     \/ /\ th' = [th EXCEPT ![t].pc = "exit111",
                            ![t].raising = "RuntimeError",
                            ![t].nctor = th[t].nctor + 1]
        /\ init_failed' = init_failed \cup {th[t].cachekey}
        /\ UNCHANGED << maps, loads >>
  /\ UNCHANGED << flt, init_pc, get_ident_attr, proc_defined, insts, _map_objs,
                  _map_loading, _map_objs_lock, events, ext_lock, returned,
                  ncalls >>

\* line 119: the loaded map is stored under the key
StoreMap(t) ==
  /\ th[t].pc = "L119"
  /\ _map_objs' = Put(_map_objs, th[t].cachekey, th[t].m)
  /\ th' = [th EXCEPT ![t].pc = "L120"]
  /\ UNCHANGED << flt, init_pc, get_ident_attr, proc_defined, insts, _map_loading,
                  _map_objs_lock, events, maps, ext_lock, loads, returned,
                  init_failed, ncalls >>

\* line 120: the Event now stored under the key is set, the Lock still held
SetEvent(t) ==
  /\ th[t].pc = "L120"
  /\ IF th[t].cachekey \in DOMAIN _map_loading
     THEN /\ events' = [events EXCEPT ![_map_loading[th[t].cachekey]] = TRUE]
          /\ th' = [th EXCEPT ![t].pc = "L121"]
     ELSE /\ th' = [th EXCEPT ![t].pc = "exit111", ![t].raising = "KeyError"]
          /\ UNCHANGED events
  /\ UNCHANGED << flt, init_pc, get_ident_attr, proc_defined, insts, _map_objs,
                  _map_loading, _map_objs_lock, maps, ext_lock, loads,
                  returned, init_failed, ncalls >>

\* line 121-122: the second print evaluates proc as the first does; the
\* with block is then left, which releases the Lock
PrintSet(t) ==
  /\ th[t].pc = "L121"
  /\ th' = IF proc_defined
           THEN [th EXCEPT ![t].pc = "L129", ![t].holds = 0]
           ELSE [th EXCEPT ![t].pc = "exit111", ![t].raising = "NameError"]
  /\ UNCHANGED << flt, init_pc, get_ident_attr, proc_defined, insts, _map_objs,
                  _map_loading, _map_objs_lock, events, maps, ext_lock,
                  loads, returned, init_failed, ncalls >>

\* line 125: the Event stored under the key is looked up
LookupEvent(t) ==
  /\ th[t].pc = "L125"
  /\ IF th[t].cachekey \in DOMAIN _map_loading
     THEN /\ th' = [th EXCEPT ![t].pc = "wait",
                              ![t].ev = _map_loading[th[t].cachekey]]
          /\ UNCHANGED ext_lock
     ELSE Raise(t, th[t], "KeyError")
  /\ UNCHANGED << flt, init_pc, get_ident_attr, proc_defined, insts, _map_objs,
                  _map_loading, _map_objs_lock, events, maps, loads,
                  returned, init_failed, ncalls >>

\* line 125-127: Event.wait() returns once that Event is set
WaitEvent(t) ==
  /\ th[t].pc = "wait"
  /\ events[th[t].ev]
  /\ th' = [th EXCEPT ![t].pc = "L129"]
  /\ UNCHANGED << flt, init_pc, get_ident_attr, proc_defined, insts, _map_objs,
                  _map_loading, _map_objs_lock, events, maps, ext_lock,
                  loads, returned, init_failed, ncalls >>

\* line 129: the final lookup of the handle
ReturnMap(t) ==
  /\ th[t].pc = "L129"
  /\ IF th[t].cachekey \in DOMAIN _map_objs
     THEN /\ th' = [th EXCEPT ![t].pc = "L138", ![t].m = _map_objs[th[t].cachekey]]
          /\ returned' = returned \cup
               {<< get_ident_attr[t], th[t].mapfile, _map_objs[th[t].cachekey] >>}
          /\ UNCHANGED ext_lock
     ELSE /\ Raise(t, th[t], "KeyError")
          /\ UNCHANGED returned
  /\ UNCHANGED << flt, init_pc, get_ident_attr, proc_defined, insts, _map_objs,
                  _map_loading, _map_objs_lock, events, maps, loads,
                  init_failed, ncalls >>

\* line 138-151: resize, srs and zoom_to_box on the handle, outside the
\* try, then the layer filter, which deletes from the handle's own list
Configure(t) ==
  /\ th[t].pc = "L138"
  /\ IF th[t].query.srs_ok
     THEN /\ maps' = [maps EXCEPT ![th[t].m] =
                        FilterLayers(maps[th[t].m], Self(t).layers)]
          /\ th' = [th EXCEPT ![t].pc = "L154"]
          /\ UNCHANGED ext_lock
     ELSE /\ Raise(t, th[t], "RuntimeError")
          /\ UNCHANGED maps
  /\ UNCHANGED << flt, init_pc, get_ident_attr, proc_defined, insts, _map_objs,
                  _map_loading, _map_objs_lock, events, loads, returned,
                  init_failed, ncalls >>

\* line 154-170, 85-86: render and encode, the finally clause's log record,
\* and the return through render() and get_map
Draw(t) ==
  /\ th[t].pc = "L154"
  /\ \/ /\ th' = [th EXCEPT ![t] =
                    Ended([th[t] EXCEPT !.ndraw = th[t].ndraw + 1,
                                        !.nlog = th[t].nlog + 1,
                                        !.status = "200", !.size = "len"],
                          "ImageSource")]
        /\ ext_lock' = ReleaseExternal(t)
     \/ Raise(t, [th[t] EXCEPT !.ndraw = th[t].ndraw + 1,
                               !.nlog = th[t].nlog + 1,
                               !.status = "500", !.size = None],
              "RuntimeError")
  /\ UNCHANGED << flt, init_pc, get_ident_attr, proc_defined, insts, _map_objs,
                  _map_loading, _map_objs_lock, events, maps, loads,
                  returned, init_failed, ncalls >>

\* lines 109-129 and 138-170: the statements after line 102, which no call
\* of the program reaches
Unreached(t) ==
  \/ CheckLoading(t) \/ InsertEvent(t) \/ ReadLockName(t) \/ AcquireLock(t)
  \/ PrintCaching(t) \/ Construct(t) \/ StoreMap(t) \/ SetEvent(t)
  \/ PrintSet(t) \/ ExitGuard(t) \/ ExitRender(t) \/ LookupEvent(t)
  \/ WaitEvent(t) \/ ReturnMap(t) \/ Configure(t) \/ Draw(t)

\* --------------------------------------------------------- specifications
\* the steps of a get_map call that thread t has begun
CallStep(t) == Render(t) \/ ThreadIdent(t)

\* the steps of the get_map calls of the caller threads
NextCalls == \E t \in Threads : GetMap(t) \/ CallStep(t)

Next == MapnikSourceInit \/ NextCalls

\* callers' get_map calls interleaved with the construction of sources
Spec == Init /\ [][Next]_vars

\* get_map calls on the one source constructed at start-up: no further
\* MapnikSource is constructed while the process serves requests
SpecCalls == Init /\ [][NextCalls]_vars

\* get_map calls under a scheduler that lets every thread that can take a
\* step of its call take one eventually
SpecAcquire ==
  /\ Init
  /\ [][NextCalls]_vars
  /\ \A t \in Threads : WF_vars(CallStep(t))

\* line 145-151 on its own: a map with any layer list, a source with any
\* allow-list, no get_map call under way
InitFilter ==
  /\ get_ident_attr = [t \in Threads |-> 0]
  /\ proc_defined = FALSE
  /\ \E c \in Configs : insts = << c >>
  /\ _map_objs = EmptyMap
  /\ _map_loading = EmptyMap
  /\ _map_objs_lock = 1
  /\ events = << >>
  /\ maps = << >>
  /\ ext_lock = 0
  /\ th = [t \in Threads |-> IdleLocals]
  /\ loads = EmptyMap
  /\ returned = {}
  /\ init_failed = {}
  /\ ncalls = 0
  /\ \E l \in LayerLists, a \in AllowLists :
       flt = [ layers |-> l, allow |-> a, result |-> << >>, done |-> FALSE ]
  /\ init_pc = 0

\* line 145-151: the filter runs on the map's layer list
ApplyFilter ==
  /\ ~flt.done
  /\ flt' = [flt EXCEPT !.result = FilterLayers(flt.layers, flt.allow),
                        !.done = TRUE]
  /\ UNCHANGED << init_pc, get_ident_attr, proc_defined, insts, _map_objs,
                  _map_loading, _map_objs_lock, events, maps, ext_lock, th,
                  loads, returned, init_failed, ncalls >>

SpecFilter == InitFilter /\ [][ApplyFilter]_vars

\* ----------------------------------------------------------------- claims
\* thread t is inside render_mapfile (the worker has been submitted)
InRenderCall(t) == th[t].pc \notin {"idle", "render"}

\* thread t's last get_map call has ended after handing _render_mapfile to
\* the worker (it passed the guards and render())
EndedRenderCall(t) ==
  /\ th[t].pc = "idle"
  /\ th[t].result \notin {None, "BlankImage"}

\* the mapfile the last call of thread t asked map_obj for
CalledMapfile(t) == ResolveMapfile(Self(t).mapfile, th[t].query)

\* C1: once a map_obj call for a mapfile has ended, the handle constructor
\* (mapnik.Map + load_map) has completed exactly once for a key of that
\* mapfile, and for no key more than once.
C1_ExactlyOneConstruction ==
  /\ \A k \in DOMAIN loads : loads[k] <= 1
  /\ \A t \in Threads :
       EndedRenderCall(t) =>
         \E k \in DOMAIN loads : k[3] = CalledMapfile(t) /\ loads[k] = 1

\* C9: on sources configured with the external lock, at most one call is
\* inside render_mapfile at any time, for whatever keys, and that call holds
\* the lock from its submission to its end.
C9_ExternalLockExcludes ==
  /\ \A t \in Threads : (InRenderCall(t) /\ Self(t).lock) => ext_lock = t
  /\ \A t1 \in Threads, t2 \in Threads :
       ( /\ t1 /= t2
         /\ InRenderCall(t1) /\ Self(t1).lock
         /\ InRenderCall(t2) /\ Self(t2).lock ) => FALSE

\* C9 witness: one call on a locked source is inside render_mapfile while
\* another call on a locked source is held back at render().
C9_Witness ==
  \E t1 \in Threads, t2 \in Threads :
    /\ InRenderCall(t1) /\ Self(t1).lock
    /\ th[t2].pc = "render" /\ Self(t2).lock

\* C11: the get_map step of a call whose query a configured guard refuses
\* ends the call with BlankImage, with no constructor and no draw invoked,
\* and leaves the registry tables, the lock, the Events and the loaded maps
\* as they were.
C11_GuardShortCircuit ==
  [][ \A t \in Threads :
        ( /\ th[t].pc = "idle"
          /\ th'[t] /= th[t]
          /\ GuardFails(insts[th'[t].inst], th'[t].contains, th'[t].intersects) )
        => /\ th'[t].pc = "idle"
           /\ th'[t].result = "BlankImage"
           /\ th'[t].nctor = 0 /\ th'[t].ndraw = 0 /\ th'[t].nlog = 0
           /\ _map_objs' = _map_objs
           /\ _map_loading' = _map_loading
           /\ _map_objs_lock' = _map_objs_lock
           /\ events' = events
           /\ maps' = maps ]_vars

\* C11 witness: a call has been refused by a guard while another call is
\* inside render_mapfile.
C11_Witness ==
  \E t \in Threads, u \in Threads :
    /\ th[t].pc = "idle" /\ th[t].result = "BlankImage"
    /\ GuardFails(Self(t), th[t].contains, th[t].intersects)
    /\ InRenderCall(u)

\* C13: every call of the render worker has emitted exactly one request-log
\* record by the time it ends, whether it returned an image or failed in
\* map_obj, in the configuration of the handle, or in draw.
C13_OneLogPerRenderCall ==
  \A t \in Threads : EndedRenderCall(t) => th[t].nlog = 1

\* C14: every get_map call that has ended has returned an image, raised
\* BlankImage or raised SourceError; no other exception type has left it.
C14_ClosedOutcomes ==
  \A t \in Threads :
    th[t].pc = "idle" =>
      th[t].result \in {None, "ImageSource", "BlankImage", "SourceError"}

C16_OneCachePerProcess ==
  [][ init_pc' /= init_pc =>
        /\ _map_objs' = _map_objs
        /\ _map_loading' = _map_loading
        /\ _map_objs_lock' = _map_objs_lock ]_vars

\* C19: with weakly fair scheduling (and a constructor that never fails),
\* every map_obj call eventually returns a handle to _render_mapfile.
C19_AcquireTerminates ==
  \A t \in Threads : (th[t].pc = "L102") ~> (th[t].pc = "L138")

\* C20: with a non-empty allow-list, the layer list after the deletion loop
\* is the list before it restricted to the layers named 'Unkown' or in the
\* allow-list, in their original order.
C20_FilterLoopResult ==
  (flt.done /\ flt.allow /= {}) =>
    flt.result = SelectSeq(flt.layers,
                           LAMBDA name : name = "Unkown" \/ name \in flt.allow)

\* C20 witness: the loop has run on a list whose last two layers are both
\* excluded and whose first layer is kept.
C20_Witness ==
  /\ flt.done /\ flt.allow /= {}
  /\ Len(flt.layers) >= 3
  /\ flt.layers[1] \in flt.allow
  /\ \A j \in {Len(flt.layers) - 1, Len(flt.layers)} :
       flt.layers[j] /= "Unkown" /\ flt.layers[j] \notin flt.allow

====
